---- MODULE Spec2Model ----
(***************************************************************************)
(* The per-frame update/draw pipeline of game.states.levels.Level          *)
(* (src/game/states/levels.py): a chain of stages built by linear          *)
(* inheritance, InitLevelStage .. TransitionStage .. Level.  Every stage   *)
(* operator below takes the level object `self` (a record of its fields)   *)
(* and returns it as the stage leaves it, calling the stage it inherits    *)
(* from first, as `super().update(...)` / `super().draw(...)` do.          *)
(*                                                                         *)
(* Portal, Checkpoint, Player, FadeTransition and ParticleManager are      *)
(* collaborators whose code is outside src/; they are modelled from their  *)
(* description in spec.md, and say so where they are defined.              *)
(***************************************************************************)
EXTENDS Integers, Sequences, FiniteSets, TLC

VARIABLES
    level,      \* the Level object: its fields and the entities it owns
    SAVE_DATA,  \* game.common.SAVE_DATA, the process-wide save store
    order,      \* iteration order of the portal and checkpoint sets
    phase,      \* the caller's position: "update", "draw" or "switched"
    trace       \* history of the last call (stage log, store writes, callbacks)

vars == <<level, SAVE_DATA, order, phase, trace>>

\* ------------------------------------------------------------------ enums
PARALLEL_DIMENSION == "PARALLEL_DIMENSION"
INVERTED_DIMENSION == "INVERTED_DIMENSION"
\* levels.py:286 names Dimensions.VOLCANIC_DIMENSION, which enums.py:18-24 does
\* not declare.  The model lets the name stand for a further dimension, with
\* settings and a tile-set of its own: were the lookup to fail, no level
\* would be constructed.
VOLCANIC_DIMENSION == "VOLCANIC_DIMENSION"

\* The members of the Dimensions enumeration, in declaration order.
Dimensions == <<PARALLEL_DIMENSION, INVERTED_DIMENSION>>

MAIN_MENU == "main menu"
None == "None"

K_5 == "K_5"
K_e == "K_e"

\* ----------------------------------------------------------------- bounds
\* dt of a frame is 0 or DtStep.
DtStep == 32
\* Lifespan (in updates) the model gives a TextParticle; levels.py:123 gives 80.
LifespanBound == 2
\* The player uses a portal while the level holds fewer announcements than this.
MaxParticles == 1

\* ------------------------------------------------------ program constants
FADE_SPEED == 4
FALL_OUT_Y == 2000
ALPHA_SPEED == 3
\* vel = (0, -1.5), kept in half pixels per update
VEL_Y2 == 3
ALPHA_MAX == 255
RECT_SIZE == 16

\* ---------------------------------------------------------------- helpers
Range(s) == {s[i] : i \in DOMAIN s}

Min(a, b) == IF a < b THEN a ELSE b
Max(a, b) == IF a > b THEN a ELSE b

\* pygame.Rect as [x, y, w, h]
Rect(x, y, w, h) == [x |-> x, y |-> y, w |-> w, h |-> h]

\* pygame.Rect.midbottom
midbottom(r) == <<r.x + (r.w \div 2), r.y + r.h>>

\* pygame.Rect.colliderect
colliderect(a, b) ==
    /\ a.x < b.x + b.w
    /\ b.x < a.x + a.w
    /\ a.y < b.y + b.h
    /\ b.y < a.y + a.h

\* The orders in which a set can be iterated.
Orders(S) == {q \in [1..Cardinality(S) -> S] : Range(q) = S}

\* ------------------------------------------------ library.transition (spec)
\* FadeTransition, from spec.md 4.6: `fade_in` is the direction (TRUE opens the
\* screen, alpha falls to 0; FALSE closes it, alpha rises to 255), `done` says
\* the requested fade has completed, `event` is true in the one update that
\* completes it, `on_finish` holds the callbacks of fade_out_in requests.
FadeTransition(fade_in, fade_speed) ==
    [ fade_in    |-> fade_in,
      fade_speed |-> fade_speed,
      alpha      |-> IF fade_in THEN ALPHA_MAX ELSE 0,
      event      |-> FALSE,
      done       |-> FALSE,
      on_finish  |-> <<>> ]

\* idle, fading-out, closed, fading-in
FadeState(t) ==
    IF t.fade_in
    THEN (IF t.alpha = 0 THEN "idle" ELSE "fading-in")
    ELSE (IF t.alpha = ALPHA_MAX THEN "closed" ELSE "fading-out")

\* transition.fade_in = v : a change of direction requests a new fade.
Transition_set_fade_in(t, v) ==
    IF t.fade_in = v THEN t ELSE [t EXCEPT !.fade_in = v, !.done = FALSE]

\* transition.fade_out_in(on_finish=cb)
Transition_fade_out_in(t, cb) ==
    [t EXCEPT !.fade_in = FALSE, !.done = FALSE, !.on_finish = Append(@, cb)]

\* transition.update(dt): the transition after the update, and the callbacks
\* it invoked (at the moment the screen is fully closed).  The fade is driven
\* by elapsed time: no time, no progress.
Transition_update(t, dt) ==
    LET step == t.fade_speed * dt IN
    IF t.done \/ dt = 0
    THEN [t |-> [t EXCEPT !.event = FALSE], fired |-> <<>>]
    ELSE IF t.fade_in
    THEN LET a == Max(0, t.alpha - step) IN
         [t |-> [t EXCEPT !.alpha = a, !.event = (a = 0), !.done = (a = 0)],
          fired |-> <<>>]
    ELSE LET a == Min(ALPHA_MAX, t.alpha + step) IN
         IF a < ALPHA_MAX
         THEN [t |-> [t EXCEPT !.alpha = a, !.event = FALSE], fired |-> <<>>]
         ELSE IF t.on_finish = <<>>
         THEN [t |-> [t EXCEPT !.alpha = a, !.event = TRUE, !.done = TRUE],
               fired |-> <<>>]
         ELSE [t |-> [t EXCEPT !.alpha = a, !.event = TRUE, !.fade_in = TRUE,
                               !.on_finish = <<>>],
               fired |-> t.on_finish]

\* ------------------------------------------------- library.particles (spec)
\* TextParticle(pos, vel=(0, -1.5), alpha_speed=3, lifespan): positions are in
\* half pixels so that the velocity is an integer.
TextParticle(text, pos, lifespan) ==
    [ text |-> text, pos2 |-> <<2 * pos[1], 2 * pos[2]>>,
      alpha |-> ALPHA_MAX, lifespan |-> lifespan ]

Particle_update(p) ==
    [p EXCEPT !.pos2 = <<@[1], @[2] - VEL_Y2>>,
              !.alpha = @ - ALPHA_SPEED,
              !.lifespan = @ - 1]

\* ParticleManager.update: one tick for each particle, the elapsed are removed.
ParticleManager_update(ps) ==
    SelectSeq([i \in DOMAIN ps |-> Particle_update(ps[i])],
              LAMBDA p : p.lifespan > 0)

ParticleManager_add(ps, p) == Append(ps, p)

\* --------------------------------------------- game.interactables (spec)
\* Portal: `dimension_change` is true from the update that accepts a request
\* to the next one; a request for a dimension that is not unlocked is ignored.
Portal(rect, unlocked_dimensions) ==
    [ rect                |-> rect,
      dimension_change    |-> FALSE,
      current_dimension   |-> PARALLEL_DIMENSION,
      unlocked_dimensions |-> unlocked_dimensions ]

\* portal.update(player, event_info); `request` is the dimension the player
\* asks for in this frame, or None; it reaches the portals the player touches.
Portal_requested(p, player_rect, request) ==
    request # None /\ colliderect(p.rect, player_rect)

\* Mutant: the portal leaves its flag up until the next request.
Mutant_Portal_update(p, player_rect, request) ==
    IF /\ Portal_requested(p, player_rect, request)
       /\ request \in Range(p.unlocked_dimensions)
    THEN [p EXCEPT !.dimension_change = TRUE, !.current_dimension = request]
    ELSE p

Portal_update(p, player_rect, request) ==
    IF /\ Portal_requested(p, player_rect, request)
       /\ request \in Range(p.unlocked_dimensions)
    THEN [p EXCEPT !.dimension_change = TRUE, !.current_dimension = request]
    ELSE [p EXCEPT !.dimension_change = FALSE]

Portal_unlock_dimension(p, unlocked_dimensions) ==
    [p EXCEPT !.unlocked_dimensions = unlocked_dimensions]

\* Checkpoint: a rectangle and the one-shot flag text_spawned.
Checkpoint(rect) == [rect |-> rect, text_spawned |-> FALSE]

\* checkpoint.update(player_rect): the first overlap spends the checkpoint.
Checkpoint_update(c, player_rect) ==
    IF colliderect(c.rect, player_rect)
    THEN [c EXCEPT !.text_spawned = TRUE]
    ELSE c

\* ------------------------------------------------------ game.player (spec)
Player(settings, pos) ==
    [x |-> pos[1], y |-> pos[2], alive |-> TRUE, settings |-> settings]

Player_rect(pl) == Rect(pl.x, pl.y, RECT_SIZE, RECT_SIZE)

\* Mutant: the player falls a pixel in every update, whatever dt is.
Mutant_Player_update(pl, event_info) ==
    IF event_info.dt > 0
    THEN [pl EXCEPT !.x = event_info.to[1], !.y = event_info.to[2]]
    ELSE [pl EXCEPT !.y = Min(@ + 1, FALL_OUT_Y + 1)]

\* player.update: the player moves only as time passes.
Player_update(pl, event_info) ==
    IF event_info.dt > 0
    THEN [pl EXCEPT !.x = event_info.to[1], !.y = event_info.to[2]]
    ELSE pl

Player_change_settings(pl, settings) == [pl EXCEPT !.settings = settings]

\* MovingWall(settings, ...)
MovingWall(settings) == [settings |-> settings]

Enemy_change_settings(e, settings) == [e EXCEPT !.settings = settings]

\* ------------------------------------------------- opaque lookups (spec)
\* load_settings(SETTINGS_DIR / f"{enm.value}.json"), self.assets[enm.value]
\* and TileLayerMap.make_map(tileset): what was loaded or baked, by its key.
load_settings(dimension) == <<"settings", dimension>>
assets(dimension) == <<"tileset", dimension>>
make_map(tileset) == <<"map_surf", tileset>>

\* ------------------------------------------------------- the call's world
\* A stage works on w = [lv |-> the level, sd |-> SAVE_DATA, tr |-> trace].
Log(w, label) == [w EXCEPT !.tr.log = Append(@, label)]

Bump(n) == Min(n + 1, 2)

\* self.settings[dimension.value] and self.tilesets[dimension]
settings(lv, dimension) == lv.settings[dimension]
tilesets(lv, dimension) == lv.tilesets[dimension]

\* ---------------------------------------------------------- update chain
\* InitLevelStage.update: pass
InitLevelStage_update(w) == w

\* RenderBackgroundStage.update (inherited unchanged up to TileStage)
RenderBackgroundStage_update(w) ==
    Log(InitLevelStage_update(w), "background")

\* PlayerStage.update
PlayerStage_update(w, event_info) ==
    LET w1 == RenderBackgroundStage_update(w)
        pl == Player_update(w1.lv.player, event_info)
        w2 == Log([w1 EXCEPT !.lv.player = pl], "player")
    IN  IF pl.y > FALL_OUT_Y
        THEN [w2 EXCEPT !.lv.player.alive = FALSE,
                        !.sd.latest_checkpoint = w2.lv.latest_checkpoint,
                        !.tr.writes = Bump(@)]
        ELSE w2

\* ItemStage.update
ItemStage_update(w, event_info) == PlayerStage_update(w, event_info)

\* SpecialTileStage.update
SpecialTileStage_update(w, event_info) ==
    Log(ItemStage_update(w, event_info), "special_tiles")

\* EnemyStage.update
EnemyStage_update(w, event_info) ==
    Log(SpecialTileStage_update(w, event_info), "enemies")

\* Mutant: the capture does not ask whether the checkpoint is spent.
Mutant_CheckpointStage_one(w, c) ==
    LET checkpoint == w.lv.checkpoints[c]
        rect == Player_rect(w.lv.player)
        w1 == IF colliderect(checkpoint.rect, rect)
              THEN [w EXCEPT !.lv.latest_checkpoint = midbottom(checkpoint.rect),
                             !.tr.captures[c] = Bump(@)]
              ELSE w
    IN  [w1 EXCEPT !.lv.checkpoints[c] = Checkpoint_update(checkpoint, rect),
                   !.tr.overlapped[c] =
                       IF colliderect(checkpoint.rect, rect) THEN Bump(@) ELSE @]

\* CheckpointStage.update: the body of the loop for one checkpoint
CheckpointStage_one(w, c) ==
    LET checkpoint == w.lv.checkpoints[c]
        rect == Player_rect(w.lv.player)
        w1 == IF ~checkpoint.text_spawned /\ colliderect(checkpoint.rect, rect)
              THEN [w EXCEPT !.lv.latest_checkpoint = midbottom(checkpoint.rect),
                             !.tr.captures[c] = Bump(@)]
              ELSE w
    IN  [w1 EXCEPT !.lv.checkpoints[c] = Checkpoint_update(checkpoint, rect),
                   !.tr.overlapped[c] =
                       IF colliderect(checkpoint.rect, rect) THEN Bump(@) ELSE @]

RECURSIVE CheckpointStage_loop(_, _, _)
CheckpointStage_loop(w, q, i) ==
    IF i > Len(q) THEN w
    ELSE CheckpointStage_loop(CheckpointStage_one(w, q[i]), q, i + 1)

CheckpointStage_update(w, event_info, ord) ==
    Log(CheckpointStage_loop(EnemyStage_update(w, event_info), ord.checkpoints, 1),
        "checkpoints")

\* NoteStage.update
NoteStage_update(w, event_info, ord) ==
    Log(CheckpointStage_update(w, event_info, ord), "notes")

\* Mutant: the switch forgets the enemies.
Mutant_PortalStage_switch(lv, portal) ==
    LET dimension == portal.current_dimension IN
    [lv EXCEPT !.current_dimension = dimension,
               !.map_surf = make_map(tilesets(lv, dimension)),
               !.player = Player_change_settings(@, settings(lv, dimension))]

\* PortalStage.update: the else branch, taken for a portal that switches
PortalStage_switch(lv, portal) ==
    LET dimension == portal.current_dimension IN
    [lv EXCEPT !.current_dimension = dimension,
               !.map_surf = make_map(tilesets(lv, dimension)),
               !.player = Player_change_settings(@, settings(lv, dimension)),
               !.enemies = [e \in DOMAIN @ |->
                              Enemy_change_settings(@[e], settings(lv, dimension))]]

\* Mutant: the test of portal.dimension_change is inverted.
Mutant_PortalStage_one(w, p, event_info) ==
    LET portal == w.lv.portals[p]
        w1 == IF portal.dimension_change
              THEN [w EXCEPT !.lv.portals[p].current_dimension =
                                 w.lv.current_dimension]
              ELSE [w EXCEPT !.lv = PortalStage_switch(@, portal),
                             !.tr.switches = Bump(@)]
        request == event_info.requests[p]
        rect == Player_rect(w1.lv.player)
        refused == /\ Portal_requested(portal, rect, request)
                   /\ request \notin Range(portal.unlocked_dimensions)
        triggered == /\ Portal_requested(portal, rect, request)
                     /\ request \in Range(portal.unlocked_dimensions)
    IN  [w1 EXCEPT !.lv.portals[p] = Portal_update(@, rect, request),
                   !.tr.refused = IF refused THEN @ \cup {p} ELSE @,
                   !.tr.triggered = IF triggered THEN @ \cup {p} ELSE @]

\* PortalStage.update: the body of the first loop for one portal
PortalStage_one(w, p, event_info) ==
    LET portal == w.lv.portals[p]
        w1 == IF ~portal.dimension_change
              THEN [w EXCEPT !.lv.portals[p].current_dimension =
                                 w.lv.current_dimension]
              ELSE [w EXCEPT !.lv = PortalStage_switch(@, portal),
                             !.tr.switches = Bump(@)]
        request == event_info.requests[p]
        rect == Player_rect(w1.lv.player)
        refused == /\ Portal_requested(portal, rect, request)
                   /\ request \notin Range(portal.unlocked_dimensions)
        triggered == /\ Portal_requested(portal, rect, request)
                     /\ request \in Range(portal.unlocked_dimensions)
    IN  [w1 EXCEPT !.lv.portals[p] = Portal_update(@, rect, request),
                   !.tr.refused = IF refused THEN @ \cup {p} ELSE @,
                   !.tr.triggered = IF triggered THEN @ \cup {p} ELSE @]

RECURSIVE PortalStage_loop(_, _, _, _)
PortalStage_loop(w, q, i, event_info) ==
    IF i > Len(q) THEN w
    ELSE PortalStage_loop(PortalStage_one(w, q[i], event_info), q, i + 1, event_info)

\* The first member of Dimensions, in declaration order, that is not unlocked,
\* appended; nothing when there is none.
\* Mutant: the membership test is lost, the first dimension is appended.
Mutant_UnlockNext(dimensions, unlocked_dimensions, i) ==
    Append(unlocked_dimensions, dimensions[i])

RECURSIVE UnlockNext(_, _, _)
UnlockNext(dimensions, unlocked_dimensions, i) ==
    IF i > Len(dimensions) THEN unlocked_dimensions
    ELSE IF dimensions[i] \notin Range(unlocked_dimensions)
    THEN Append(unlocked_dimensions, dimensions[i])
    ELSE UnlockNext(dimensions, unlocked_dimensions, i + 1)

\* Mutant: every key event unlocks (the test of event.key is lost).
Mutant_PortalStage_event(lv, event) ==
    LET unlocked == UnlockNext(Dimensions, lv.unlocked_dimensions, 1) IN
    [lv EXCEPT !.unlocked_dimensions = unlocked,
               !.portals = [p \in DOMAIN @ |->
                              Portal_unlock_dimension(@[p], unlocked)]]

\* PortalStage.update: the body of the event loop for one event
PortalStage_event(lv, event) ==
    IF event = K_5
    THEN LET unlocked == UnlockNext(Dimensions, lv.unlocked_dimensions, 1) IN
         [lv EXCEPT !.unlocked_dimensions = unlocked,
                    !.portals = [p \in DOMAIN @ |->
                                   Portal_unlock_dimension(@[p], unlocked)]]
    ELSE lv

RECURSIVE PortalStage_events(_, _, _)
PortalStage_events(lv, events, i) ==
    IF i > Len(events) THEN lv
    ELSE PortalStage_events(PortalStage_event(lv, events[i]), events, i + 1)

PortalStage_update(w, event_info, ord) ==
    LET w1 == Log(PortalStage_loop(NoteStage_update(w, event_info, ord),
                                   ord.portals, 1, event_info), "portals")
    IN  Log([w1 EXCEPT !.lv = PortalStage_events(@, event_info.events, 1),
                       !.tr.unlocks = Len(SelectSeq(event_info.events,
                                                    LAMBDA e : e = K_5))],
            "unlock")

\* Mutant: the camera does not follow a dead player.
Mutant_CameraStage_update(w, event_info, ord) ==
    LET w1 == PortalStage_update(w, event_info, ord) IN
    IF w1.lv.player.alive THEN Log(w1, "camera") ELSE w1

\* CameraStage.update
CameraStage_update(w, event_info, ord) ==
    Log(PortalStage_update(w, event_info, ord), "camera")

\* UIStage.update
UIStage_update(w, event_info, ord) ==
    LET w1 == Log(CameraStage_update(w, event_info, ord), "buttons") IN
    Log([w1 EXCEPT !.lv.particle_manager = ParticleManager_update(@)],
        "particles")

\* SFXStage.update
SFXStage_update(w, event_info, ord) ==
    Log(UIStage_update(w, event_info, ord), "sfx")

\* ExplosionStage.update
ExplosionStage_update(w, event_info, ord) ==
    Log(SFXStage_update(w, event_info, ord), "explosions")

\* A callback of RenderPortalStage.draw runs:
\* lambda: self.particle_manager.add(text_particle)
RECURSIVE Invoke(_, _, _)
Invoke(w, fired, i) ==
    IF i > Len(fired) THEN w
    ELSE Invoke([w EXCEPT !.lv.particle_manager =
                              ParticleManager_add(@, fired[i].text_particle),
                          !.tr.invoked[fired[i].id] = Bump(@),
                          !.tr.invoked_open =
                              @ \/ w.lv.transition.alpha # ALPHA_MAX],
                fired, i + 1)

\* Mutant: the death of the player does not force fade_in to False.
Mutant_TransitionStage_update(w, event_info, ord) ==
    LET w1 == ExplosionStage_update(w, event_info, ord)
        r  == Transition_update(w1.lv.transition, event_info.dt)
        w2 == Log(Invoke([w1 EXCEPT !.lv.transition = r.t], r.fired, 1),
                  "transition")
    IN  IF ~w2.lv.player.alive /\ w2.lv.transition.event
        THEN [w2 EXCEPT !.lv.next_state = MAIN_MENU,
                        !.tr.menu = [alpha |-> w2.lv.transition.alpha,
                                     dead_before |-> ~w.lv.player.alive,
                                     closing |-> ~w.lv.transition.fade_in]]
        ELSE w2

\* TransitionStage.update
TransitionStage_update(w, event_info, ord) ==
    LET w1 == ExplosionStage_update(w, event_info, ord)
        r  == Transition_update(w1.lv.transition, event_info.dt)
        w2 == Log(Invoke([w1 EXCEPT !.lv.transition = r.t], r.fired, 1),
                  "transition")
    IN  IF ~w2.lv.player.alive
        THEN LET w3 == [w2 EXCEPT !.lv.transition =
                                      Transition_set_fade_in(@, FALSE)]
             IN  IF w3.lv.transition.event
                 THEN [w3 EXCEPT !.lv.next_state = MAIN_MENU,
                                 !.tr.menu = [alpha |-> w3.lv.transition.alpha,
                                              dead_before |-> ~w.lv.player.alive,
                                              closing |-> ~w.lv.transition.fade_in]]
                 ELSE w3
        ELSE w2

\* Level.update
Level_update(w, event_info, ord) == TransitionStage_update(w, event_info, ord)

\* ------------------------------------------------------------ draw chain
\* RenderBackgroundStage.draw
RenderBackgroundStage_draw(w) == Log(w, "background")

\* RenderCheckpointStage.draw
RenderCheckpointStage_draw(w) ==
    Log(RenderBackgroundStage_draw(w), "checkpoints")

\* Mutant: on_finish is given the result of the call instead of the lambda, so
\* the particle is added at once, and again when the fade closes.
Mutant_RenderPortalStage_one(st, p) ==
    LET w == st.w
        portal == w.lv.portals[p]
        text_particle == TextParticle(portal.current_dimension,
                                      <<w.lv.player.x, w.lv.player.y>>,
                                      LifespanBound)
    IN  IF ~portal.dimension_change THEN st
        ELSE IF portal.current_dimension \notin w.lv.dimensions_traveled
        THEN [ w |-> [w EXCEPT
                     !.lv.dimensions_traveled = @ \cup {portal.current_dimension},
                     !.lv.particle_manager = ParticleManager_add(@, text_particle),
                     !.lv.transition = Transition_fade_out_in(@,
                         [id |-> portal.current_dimension,
                          text_particle |-> text_particle]),
                     !.tr.requested[portal.current_dimension] = Bump(@),
                     !.tr.invoked[portal.current_dimension] = Bump(@),
                     !.tr.invoked_open =
                         @ \/ w.lv.transition.alpha # ALPHA_MAX],
               text_particle |-> text_particle,
               made |-> st.made + 1 ]
        ELSE [ w |-> [w EXCEPT
                     !.lv.particle_manager = ParticleManager_add(@, text_particle),
                     !.tr.added = Bump(@)],
               text_particle |-> text_particle,
               made |-> st.made ]

\* RenderPortalStage.draw: the body of the loop for one portal.  The loop's
\* state is the world, the local variable text_particle and the number of
\* lambdas this call has made.
RenderPortalStage_one(st, p) ==
    LET w == st.w
        portal == w.lv.portals[p]
        text_particle == TextParticle(portal.current_dimension,
                                      <<w.lv.player.x, w.lv.player.y>>,
                                      LifespanBound)
    IN  IF ~portal.dimension_change THEN st
        ELSE IF portal.current_dimension \notin w.lv.dimensions_traveled
        THEN [ w |-> [w EXCEPT
                     !.lv.dimensions_traveled = @ \cup {portal.current_dimension},
                     !.lv.transition = Transition_fade_out_in(@,
                         [id |-> portal.current_dimension,
                          text_particle |-> text_particle]),
                     !.tr.requested[portal.current_dimension] = Bump(@)],
               text_particle |-> text_particle,
               made |-> st.made + 1 ]
        ELSE [ w |-> [w EXCEPT
                     !.lv.particle_manager = ParticleManager_add(@, text_particle),
                     !.tr.added = Bump(@)],
               text_particle |-> text_particle,
               made |-> st.made ]

RECURSIVE RenderPortalStage_loop(_, _, _)
RenderPortalStage_loop(st, q, i) ==
    IF i > Len(q) THEN st
    ELSE RenderPortalStage_loop(RenderPortalStage_one(st, q[i]), q, i + 1)

\* The lambdas of one call share the call's variable text_particle: when they
\* run they add the particle it holds when the loop has ended.
Rebind(on_finish, made, text_particle) ==
    [i \in DOMAIN on_finish |->
        IF i > Len(on_finish) - made
        THEN [on_finish[i] EXCEPT !.text_particle = text_particle]
        ELSE on_finish[i]]

\* Mutant: the draw paints the portals and forgets the announcements.
Mutant_RenderPortalStage_draw(w, ord) ==
    Log(RenderCheckpointStage_draw(w), "portals")

RenderPortalStage_draw(w, ord) ==
    LET st == RenderPortalStage_loop(
                  [w |-> RenderCheckpointStage_draw(w),
                   text_particle |-> None, made |-> 0],
                  ord.portals, 1)
    IN  Log([st.w EXCEPT !.lv.transition.on_finish =
                             Rebind(@, st.made, st.text_particle)],
            "portals")

\* RenderNoteStage.draw
RenderNoteStage_draw(w, ord) == Log(RenderPortalStage_draw(w, ord), "notes")

\* RenderEnemyStage.draw
RenderEnemyStage_draw(w, ord) == Log(RenderNoteStage_draw(w, ord), "enemies")

\* TileStage.draw
TileStage_draw(w, ord) == Log(RenderEnemyStage_draw(w, ord), "tiles")

\* Mutant: the player is drawn before the stages below it.
Mutant_PlayerStage_draw(w, ord) == TileStage_draw(Log(w, "player"), ord)

\* PlayerStage.draw
PlayerStage_draw(w, ord) == Log(TileStage_draw(w, ord), "player")

\* ItemStage.draw
ItemStage_draw(w, ord) == PlayerStage_draw(w, ord)

\* UIStage.draw
UIStage_draw(w, ord) == Log(Log(ItemStage_draw(w, ord), "buttons"), "particles")

\* SFXStage.draw
SFXStage_draw(w, ord) == Log(UIStage_draw(w, ord), "sfx")

\* ExplosionStage.draw
ExplosionStage_draw(w, ord) == Log(SFXStage_draw(w, ord), "explosions")

\* TransitionStage.draw
TransitionStage_draw(w, ord) == Log(ExplosionStage_draw(w, ord), "transition")

\* Level.draw
Level_draw(w, ord) == TransitionStage_draw(w, ord)

\* ----------------------------------------------------------- construction
\* The object layers of the map: checkpoints, portals, enemies (moving_wall)
\* and notes, by name.
CheckpointRects == [cA |-> Rect(92, 34, RECT_SIZE, RECT_SIZE),
                    cB |-> Rect(100, 34, RECT_SIZE, RECT_SIZE),
                    \* at the bottom of a pit, across the fall-out threshold
                    cC |-> Rect(0, 2002, RECT_SIZE, RECT_SIZE)]
PortalRects == [p1 |-> Rect(90, 34, RECT_SIZE, RECT_SIZE),
                p2 |-> Rect(104, 34, RECT_SIZE, RECT_SIZE)]

Maps ==
    { [checkpoints |-> {}, portals |-> {"p1", "p2"},
       enemies |-> {"w1", "w2"}, notes |-> {"n1"}],
      [checkpoints |-> {"cA", "cB"}, portals |-> {},
       enemies |-> {}, notes |-> {"n1"}],
      [checkpoints |-> {"cA"}, portals |-> {"p1"},
       enemies |-> {"w1"}, notes |-> {}],
      [checkpoints |-> {"cC"}, portals |-> {}, enemies |-> {}, notes |-> {}],
      [checkpoints |-> {}, portals |-> {}, enemies |-> {}, notes |-> {}] }

\* SAVE_DATA when the level is entered.
SavedCheckpoints == {<<0, 2000>>}

\* The dimensions the level deals with: the declared ones and the one that
\* PortalStage.__init__ names.
DimensionSet == Range(Dimensions) \cup {VOLCANIC_DIMENSION}

\* InitLevelStage.__init__ .. TransitionStage.__init__
Level(map, save) ==
    LET current_dimension == PARALLEL_DIMENSION
        latest_checkpoint == save.latest_checkpoint
        the_settings == [d \in DimensionSet |-> load_settings(d)]
        unlocked_dimensions == <<PARALLEL_DIMENSION, VOLCANIC_DIMENSION>>
    IN  [ current_dimension   |-> current_dimension,
          latest_checkpoint   |-> latest_checkpoint,
          transition          |-> FadeTransition(TRUE, FADE_SPEED),
          next_state          |-> None,
          settings            |-> the_settings,
          dimensions_traveled |-> {current_dimension},
          enemies             |-> [e \in map.enemies |->
                                     MovingWall(the_settings[current_dimension])],
          portals             |-> [p \in map.portals |->
                                     Portal(PortalRects[p], unlocked_dimensions)],
          notes               |-> map.notes,
          particle_manager    |-> <<>>,
          checkpoints         |-> [c \in map.checkpoints |->
                                     Checkpoint(CheckpointRects[c])],
          player              |-> Player(the_settings[current_dimension],
                                         latest_checkpoint),
          \* make_map() of dimension_one.tmx: the map's own tile-set
          map_surf            |-> make_map(assets(PARALLEL_DIMENSION)),
          tilesets            |-> [d \in DimensionSet |-> assets(d)],
          unlocked_dimensions |-> unlocked_dimensions ]

\* What the trace keeps across calls, and what each call starts afresh.
NewTrace(map) ==
    [ log          |-> <<>>,
      call         |-> "init",
      writes       |-> 0,
      switches     |-> 0,
      added        |-> 0,
      refused      |-> {},
      triggered    |-> {},
      died         |-> FALSE,
      captures     |-> [c \in map.checkpoints |-> 0],
      overlapped   |-> [c \in map.checkpoints |-> 0],
      unlocks      |-> 0,
      requested    |-> [d \in DimensionSet |-> 0],
      invoked      |-> [d \in DimensionSet |-> 0],
      invoked_open |-> FALSE,
      menu         |-> None ]

StartCall(tr, call) ==
    [tr EXCEPT !.log = <<>>, !.call = call, !.writes = 0, !.switches = 0,
               !.added = 0, !.died = FALSE, !.unlocks = 0,
               !.refused = IF call = "update" THEN {} ELSE @,
               !.triggered = IF call = "update" THEN {} ELSE @]

World(call) == [lv |-> level, sd |-> SAVE_DATA, tr |-> StartCall(trace, call)]

Init ==
    \E map \in Maps, save \in [latest_checkpoint : SavedCheckpoints] :
        /\ SAVE_DATA = save
        /\ level = Level(map, save)
        /\ order \in [portals : Orders(map.portals),
                      checkpoints : Orders(map.checkpoints)]
        /\ phase = "update"
        /\ trace = NewTrace(map)

\* -------------------------------------------------------------- the frames
\* Where player.update can take the player: the spawn point, the place of the
\* map's objects, and below the fall-out threshold.
Positions == {<<0, 2000>>, <<96, 34>>, <<0, 2001>>}

\* Announcements the level still holds: in the particle manager or waiting in
\* the transition.
Held(lv) == Len(lv.particle_manager) + Len(lv.transition.on_finish)

NoRequests(lv) == [p \in DOMAIN lv.portals |-> None]

\* The key events of a frame with the player at `to`, and what they ask of
\* each portal: the interact key asks each portal in reach for a dimension.
Inputs(lv, to) ==
    [events : {<<>>, <<K_5>>}, requests : {NoRequests(lv)}]
    \cup
    [events : {<<K_e>>},
     requests : IF /\ Held(lv) < MaxParticles
                   /\ \E p \in DOMAIN lv.portals :
                        colliderect(lv.portals[p].rect,
                                    Rect(to[1], to[2], RECT_SIZE, RECT_SIZE))
                THEN [DOMAIN lv.portals -> DimensionSet] ELSE {}]

\* The event_info bundles of the frames the model explores.
EventInfos(lv, dts) ==
    UNION { UNION { { [dt |-> dt, events |-> i.events,
                       requests |-> i.requests, to |-> to] : i \in Inputs(lv, to) }
                    : to \in IF dt = 0 THEN {<<lv.player.x, lv.player.y>>}
                                       ELSE Positions }
            : dt \in dts }

UpdateWith(dts) ==
    /\ phase = "update"
    /\ \E event_info \in EventInfos(level, dts) :
         LET w == Level_update(World("update"), event_info, order) IN
         /\ level' = w.lv
         /\ SAVE_DATA' = w.sd
         /\ trace' = [w.tr EXCEPT !.died = level.player.alive /\ ~w.lv.player.alive]
         /\ phase' = IF w.lv.next_state # None THEN "switched" ELSE "draw"
    /\ UNCHANGED order

\* One call of Level.update by the main loop.
Update == UpdateWith({0, DtStep})

\* One call of Level.draw by the main loop.
Draw ==
    /\ phase = "draw"
    /\ LET w == Level_draw(World("draw"), order) IN
         /\ level' = w.lv
         /\ SAVE_DATA' = w.sd
         /\ trace' = w.tr
    /\ phase' = "update"
    /\ UNCHANGED order

Next == Update \/ Draw

Spec == Init /\ [][Next]_vars

\* Frames keep arriving with dt > 0: the main loop calls update with the time
\* elapsed since the last frame, then draw, until it reads next_state.
Tick == UpdateWith({DtStep})

LiveNext == Tick \/ Draw

\* A frame: the main loop makes its next call while the level is the state
\* it runs.  Every step of LiveNext is one.
Frame ==
    /\ phase # "switched"
    /\ phase' \in {"update", "draw", "switched"} \ {phase}

LiveSpec == Init /\ [][LiveNext]_vars /\ WF_phase(Frame)

\* ------------------------------------------------------------- the claims
UpdateStep == phase = "update" /\ phase' # "update"
DrawStep == phase = "draw" /\ phase' = "update"

AfterUpdate == trace.call = "update"
AfterDraw == trace.call = "draw"

DrawOrder ==
    << "background", "checkpoints", "portals", "notes", "enemies", "tiles",
       "player", "buttons", "particles", "sfx", "explosions", "transition" >>

\* C1: every call of Level.draw makes its contributions in the order
\* background, checkpoints, portals (with the announcements), notes, enemies,
\* tile surface, player, UI buttons and particles, SFX icon, explosions,
\* transition, each exactly once, whatever the entity sets hold.
C1_DrawOrder == AfterDraw => trace.log = DrawOrder

\* A draw that handled an announcement has run.
C1_Witness == AfterDraw /\ trace.added > 0 /\ Len(trace.log) = Len(DrawOrder)

\* A draw of a level whose entity sets are all empty has run.
C1_WitnessEmpty ==
    /\ AfterDraw
    /\ DOMAIN level.portals = {} /\ DOMAIN level.checkpoints = {}
    /\ DOMAIN level.enemies = {} /\ level.notes = {}

Spent(lv, c) == lv.checkpoints[c].text_spawned

Overlaps(lv, c) == colliderect(lv.checkpoints[c].rect, Player_rect(lv.player))

\* C2: a checkpoint's capture (latest_checkpoint := its rect.midbottom) happens
\* at most once: in the first update in which the unspent checkpoint overlaps
\* the player; from then on the checkpoint is spent, never un-spends, and
\* later overlapping updates make no capture by it.
C2_CaptureOnce ==
    /\ [](\A c \in DOMAIN level.checkpoints :
            /\ trace.captures[c] <= 1
            /\ Spent(level, c) <=> trace.captures[c] = 1)
    /\ [][\A c \in DOMAIN level.checkpoints :
            /\ Spent(level, c) =>
                 /\ Spent(level', c)
                 /\ trace'.captures[c] = trace.captures[c]
            /\ (UpdateStep /\ ~Spent(level, c) /\ Overlaps(level', c)) =>
                 /\ Spent(level', c)
                 /\ trace'.captures[c] = 1
                 /\ (\A o \in DOMAIN level.checkpoints \ {c} :
                        trace'.captures[o] = trace.captures[o])
                    => level'.latest_checkpoint
                         = midbottom(level.checkpoints[c].rect)
            /\ (\A o \in DOMAIN level.checkpoints :
                    trace'.captures[o] = trace.captures[o])
                 => level'.latest_checkpoint = level.latest_checkpoint]_vars

\* The player has overlapped checkpoint cA in two updates, and the capture at
\* the anchor (100, 50) was made once.
C2_Witness ==
    /\ "cA" \in DOMAIN level.checkpoints
    /\ trace.overlapped["cA"] = 2
    /\ trace.captures["cA"] = 1
    /\ level.latest_checkpoint = <<100, 50>>

Changing(lv) == {p \in DOMAIN lv.portals : lv.portals[p].dimension_change}

\* C3: a portal asked for a dimension that is not unlocked does not fire, and
\* an update makes a switch (current_dimension, tile surface, settings) only
\* for a portal that fired, to that portal's dimension; so current_dimension
\* is an unlocked dimension in every reachable state.
C3_LockedPortal ==
    /\ [](/\ level.current_dimension \in Range(level.unlocked_dimensions)
          /\ \A p \in trace.refused : ~level.portals[p].dimension_change)
    /\ [][UpdateStep =>
            /\ trace'.switches = Min(2, Cardinality(Changing(level)))
            /\ Changing(level) = {} =>
                 /\ level'.current_dimension = level.current_dimension
                 /\ level'.map_surf = level.map_surf
                 /\ level'.player.settings = level.player.settings
                 /\ \A e \in DOMAIN level.enemies :
                        level'.enemies[e] = level.enemies[e]
            /\ level'.current_dimension # level.current_dimension =>
                 \E p \in Changing(level) :
                     level.portals[p].current_dimension
                       = level'.current_dimension]_vars

\* A portal was asked for the locked dimension and the level went through the
\* next frame's update without a switch.
C3_Witness ==
    /\ AfterUpdate
    /\ trace.refused # {}
    /\ INVERTED_DIMENSION \notin Range(level.unlocked_dimensions)
    /\ level.current_dimension = PARALLEL_DIMENSION

\* C4: the callback of every transition.fade_out_in(on_finish=cb) the level
\* makes is invoked exactly once, with the screen fully closed (alpha 255):
\* never twice, never while fading, and, as frames keep arriving, once; also
\* when a second request is made before the first has run and when the player
\* dies.
C4_CallbackOnce ==
    /\ [](/\ ~trace.invoked_open
          /\ \A d \in DimensionSet :
                /\ trace.requested[d] <= 1
                /\ trace.invoked[d] <= trace.requested[d])
    /\ \A d \in DimensionSet :
          (trace.requested[d] = 1) ~> (trace.invoked[d] = 1)

\* Two callbacks were requested before either had run, the player died, and
\* both have been invoked.
C4_Witness ==
    /\ trace.invoked[VOLCANIC_DIMENSION] = 1
    /\ trace.invoked[INVERTED_DIMENSION] = 1
    /\ ~level.player.alive

\* update(event_info) with an empty event list and dt = 0
ZeroInfo(lv) ==
    [dt |-> 0, events |-> <<>>, requests |-> NoRequests(lv),
     to |-> <<lv.player.x, lv.player.y>>]

UpdateZero(w) ==
    Level_update([w EXCEPT !.tr = StartCall(@, "update")], ZeroInfo(w.lv), order)

\* The level after one, and after two such updates from the current state.
Once == UpdateZero([lv |-> level, sd |-> SAVE_DATA, tr |-> trace])
Twice == UpdateZero(Once)

\* Positions, dimension, checkpoint and portal flags, transition, next_state.
Observable(lv) ==
    [ player              |-> [x |-> lv.player.x, y |-> lv.player.y,
                               alive |-> lv.player.alive],
      current_dimension   |-> lv.current_dimension,
      latest_checkpoint   |-> lv.latest_checkpoint,
      checkpoints         |-> [c \in DOMAIN lv.checkpoints |->
                                 lv.checkpoints[c].text_spawned],
      portals             |-> [p \in DOMAIN lv.portals |->
                                 lv.portals[p].dimension_change],
      transition          |-> [state |-> FadeState(lv.transition),
                               alpha |-> lv.transition.alpha,
                               fade_in |-> lv.transition.fade_in,
                               event |-> lv.transition.event],
      next_state          |-> lv.next_state ]

FirstLocked(unlocked) ==
    CHOOSE i \in 1..Len(Dimensions) :
        /\ Dimensions[i] \notin Range(unlocked)
        /\ \A j \in 1..(i - 1) : Dimensions[j] \in Range(unlocked)

Unlocked(unlocked) ==
    IF Range(Dimensions) \subseteq Range(unlocked) THEN unlocked
    ELSE Append(unlocked, Dimensions[FirstLocked(unlocked)])

\* C6: each KEYDOWN of key 5 appends to unlocked_dimensions the first declared
\* dimension it lacks, nothing when it lacks none, and the portals are given
\* the updated sequence; other events change nothing.  From [Parallel] with
\* Dimensions = {Parallel, Inverted}: [Parallel, Inverted], then no change.
C6_Unlock ==
    /\ UnlockNext(<<PARALLEL_DIMENSION, INVERTED_DIMENSION>>,
                  <<PARALLEL_DIMENSION>>, 1)
         = <<PARALLEL_DIMENSION, INVERTED_DIMENSION>>
    /\ UnlockNext(<<PARALLEL_DIMENSION, INVERTED_DIMENSION>>,
                  <<PARALLEL_DIMENSION, INVERTED_DIMENSION>>, 1)
         = <<PARALLEL_DIMENSION, INVERTED_DIMENSION>>
    /\ [][/\ UpdateStep =>
               /\ level'.unlocked_dimensions =
                    CASE trace'.unlocks = 0 -> level.unlocked_dimensions
                      [] trace'.unlocks = 1 -> Unlocked(level.unlocked_dimensions)
                      [] OTHER -> Unlocked(Unlocked(level.unlocked_dimensions))
               /\ Len(level'.unlocked_dimensions)
                    <= Len(level.unlocked_dimensions) + trace'.unlocks
               /\ trace'.unlocks > 0 =>
                    \A p \in DOMAIN level.portals :
                        level'.portals[p].unlocked_dimensions
                          = level'.unlocked_dimensions
          /\ DrawStep => level'.unlocked_dimensions = level.unlocked_dimensions
         ]_vars

\* An unlock event has added the inverted dimension, the portals hold it, and
\* a further unlock event has changed nothing.
C6_Witness ==
    /\ AfterUpdate
    /\ trace.unlocks = 1
    /\ level.unlocked_dimensions
         = <<PARALLEL_DIMENSION, VOLCANIC_DIMENSION, INVERTED_DIMENSION>>
    /\ Once.lv.unlocked_dimensions = level.unlocked_dimensions
    /\ \E p \in DOMAIN level.portals :
          level.portals[p].unlocked_dimensions = level.unlocked_dimensions
    /\ trace.overlapped = <<>> /\ level.transition.alpha = 0

\* C7: an update that leaves the player below the fall-out threshold leaves
\* the player dead and the transition fading out with fade_in false; and as
\* frames keep arriving with dt > 0 a dead player leads to next_state ==
\* MAIN_MENU, whatever the transition was doing at the death.
C7_FallOut ==
    /\ [][UpdateStep /\ level'.player.y > FALL_OUT_Y =>
            /\ ~level'.player.alive
            /\ ~level'.transition.fade_in
            /\ \/ FadeState(level'.transition) = "fading-out"
               \/ level'.next_state = MAIN_MENU]_vars
    /\ (~level.player.alive) ~> (level.next_state = MAIN_MENU)

\* The player died inside a fade_out_in cycle, whose callback has run, and the
\* level has handed over to the main menu.
C7_Witness ==
    /\ level.next_state = MAIN_MENU
    /\ ~level.player.alive
    /\ \E d \in DimensionSet : trace.invoked[d] = 1

\* C8: next_state is set to MAIN_MENU only in an update that began with the
\* player dead and in which the death fade-out reached the closed state
\* (alpha 255); not on the event of another fade that completes in the frame
\* the player dies.
C8_MenuOnlyOnDeathFade ==
    level.next_state = MAIN_MENU =>
        /\ ~level.player.alive
        /\ trace.menu.dead_before
        /\ trace.menu.alpha = ALPHA_MAX

\* C9: at every call to draw the tile surface is that of current_dimension's
\* tile-set and the player and every enemy hold current_dimension's settings.
C9_WholeSwitch ==
    phase = "draw" =>
        /\ level.map_surf = make_map(assets(level.current_dimension))
        /\ level.player.settings = load_settings(level.current_dimension)
        /\ \A e \in DOMAIN level.enemies :
              level.enemies[e].settings = load_settings(level.current_dimension)

\* The update before this draw switched the dimension of a level with enemies.
C9_Witness ==
    /\ phase = "draw"
    /\ trace.switches > 0
    /\ level.current_dimension # PARALLEL_DIMENSION
    /\ DOMAIN level.enemies # {}

\* C10: SAVE_DATA["latest_checkpoint"] is written only in the update in which
\* the player dies: no other update and no draw writes it.
C10_WriteOnDeathOnly ==
    /\ [](trace.writes > 0 => trace.died)
    /\ [][DrawStep => SAVE_DATA' = SAVE_DATA]_vars

\* C11: at the end of an update in which the player's alive flag became false
\* SAVE_DATA["latest_checkpoint"] is the level's latest_checkpoint, a
\* checkpoint captured in that same update included.
C11_SavedOnDeath ==
    trace.died => SAVE_DATA.latest_checkpoint = level.latest_checkpoint


\* C12: a call to draw leaves current_dimension, dimensions_traveled,
\* unlocked_dimensions, latest_checkpoint, next_state, the transition's state
\* and pending callbacks, and the particle set as they were.
C12_DrawIsPure ==
    [][DrawStep =>
         /\ level'.current_dimension = level.current_dimension
         /\ level'.dimensions_traveled = level.dimensions_traveled
         /\ level'.unlocked_dimensions = level.unlocked_dimensions
         /\ level'.latest_checkpoint = level.latest_checkpoint
         /\ level'.next_state = level.next_state
         /\ FadeState(level'.transition) = FadeState(level.transition)
         /\ level'.transition.on_finish = level.transition.on_finish
         /\ level'.particle_manager = level.particle_manager]_vars


\* C13: the announcement of a switch to D is added, and its gating fade is
\* requested, only when the level's current_dimension is D already: a draw
\* adds no particle and requests no fade for another dimension than the
\* current one.
C13_SwitchBeforeAnnounce ==
    [][DrawStep =>
         /\ \A i \in (Len(level.particle_manager) + 1)
                         .. Len(level'.particle_manager) :
                level'.particle_manager[i].text = level'.current_dimension
         /\ \A i \in (Len(level.transition.on_finish) + 1)
                         .. Len(level'.transition.on_finish) :
                level'.transition.on_finish[i].id = level'.current_dimension
      ]_vars


\* The portals that fire toward dimension d.
Firing(lv, d) ==
    {p \in Changing(lv) : lv.portals[p].current_dimension = d}

\* C14: for the switches toward a dimension d that a draw announces: if d is
\* not yet in dimensions_traveled the draw records d there and requests one
\* fade whose callback holds the announcement of d, and adds no particle for d
\* itself, also when two portals fire toward d; if d is in dimensions_traveled
\* it adds one particle for each switch and requests no fade.
C14_OneAnnouncement ==
    [][DrawStep =>
         \A d \in DimensionSet :
            LET particles == {i \in (Len(level.particle_manager) + 1)
                                      .. Len(level'.particle_manager) :
                                level'.particle_manager[i].text = d}
                callbacks == {i \in (Len(level.transition.on_finish) + 1)
                                      .. Len(level'.transition.on_finish) :
                                level'.transition.on_finish[i].id = d}
            IN  Firing(level, d) # {} =>
                  IF d \notin level.dimensions_traveled
                  THEN /\ d \in level'.dimensions_traveled
                       /\ Cardinality(callbacks) = 1
                       /\ \A i \in callbacks :
                             level'.transition.on_finish[i].text_particle.text = d
                       /\ particles = {}
                  ELSE /\ Cardinality(particles) = Cardinality(Firing(level, d))
                       /\ callbacks = {}
      ]_vars


C16_PortalsFollow ==
    AfterUpdate =>
        \A p \in DOMAIN level.portals :
            ~level.portals[p].dimension_change =>
                level.portals[p].current_dimension = level.current_dimension


UpdateOrder ==
    << "background", "player", "special_tiles", "enemies", "checkpoints",
       "notes", "portals", "unlock", "camera", "buttons", "particles", "sfx",
       "explosions", "transition" >>

\* C17: every call of Level.update makes each stage's contribution once, in
\* the order (background,) player, special tiles, enemies, checkpoints, notes,
\* portals, unlock events, camera, UI buttons, particle manager, SFX icon,
\* explosions, transition; also in the frame in which the player dies and in
\* the frames after it.
C17_UpdateOrder == AfterUpdate => trace.log = UpdateOrder

\* An update of a level whose player was dead before it, made in full.
C17_Witness ==
    /\ AfterUpdate
    /\ ~level.player.alive
    /\ ~trace.died
    /\ Len(trace.log) = Len(UpdateOrder)
    /\ trace.log[Len(trace.log)] = "transition"


\* C18: unlocked_dimensions is a duplicate-free sequence of members of the
\* declared Dimensions enumeration that starts with the parallel dimension
\* and only grows, by appending; dimensions_traveled only grows and holds the
\* parallel dimension.
C18_AppendOnly ==
    /\ [](/\ \A i, j \in DOMAIN level.unlocked_dimensions :
                 level.unlocked_dimensions[i] = level.unlocked_dimensions[j]
                    => i = j
          /\ Range(level.unlocked_dimensions) \subseteq Range(Dimensions)
          /\ level.unlocked_dimensions[1] = PARALLEL_DIMENSION
          /\ PARALLEL_DIMENSION \in level.dimensions_traveled)
    /\ [][/\ Len(level'.unlocked_dimensions) >= Len(level.unlocked_dimensions)
          /\ SubSeq(level'.unlocked_dimensions, 1,
                    Len(level.unlocked_dimensions)) = level.unlocked_dimensions
          /\ level.dimensions_traveled \subseteq level'.dimensions_traveled
         ]_vars

\* C18 without the membership in the declared enumeration: the rest of it.
C18_AppendOnlyOfKnown ==
    /\ [](/\ \A i, j \in DOMAIN level.unlocked_dimensions :
                 level.unlocked_dimensions[i] = level.unlocked_dimensions[j]
                    => i = j
          /\ Range(level.unlocked_dimensions) \subseteq DimensionSet
          /\ level.unlocked_dimensions[1] = PARALLEL_DIMENSION
          /\ PARALLEL_DIMENSION \in level.dimensions_traveled)
    /\ [][/\ Len(level'.unlocked_dimensions) >= Len(level.unlocked_dimensions)
          /\ SubSeq(level'.unlocked_dimensions, 1,
                    Len(level.unlocked_dimensions)) = level.unlocked_dimensions
          /\ level.dimensions_traveled \subseteq level'.dimensions_traveled
         ]_vars


\* What C19 observes of a level.
Observed(lv) ==
    [ current_dimension   |-> lv.current_dimension,
      latest_checkpoint   |-> lv.latest_checkpoint,
      portals             |-> [p \in DOMAIN lv.portals |->
                                 lv.portals[p].current_dimension],
      dimensions_traveled |-> lv.dimensions_traveled,
      particles           |-> Range(lv.particle_manager),
      fade_requests       |-> Range(lv.transition.on_finish) ]

\* The orders in which the level's portal and checkpoint sets can be iterated.
AllOrders(lv) ==
    [portals : Orders(DOMAIN lv.portals),
     checkpoints : Orders(DOMAIN lv.checkpoints)]

\* C19: the state an update leaves does not depend on the iteration order of
\* the portal and checkpoint sets: from any state, with any event_info, every
\* order gives the same current_dimension, latest_checkpoint, portal
\* dimensions, dimensions_traveled, particles and fade requests.
C19_OrderIndependent ==
    phase = "update" =>
        \A event_info \in EventInfos(level, {0, DtStep}) :
            \A o1, o2 \in AllOrders(level) :
                Observed(Level_update(World("update"), event_info, o1).lv)
                  = Observed(Level_update(World("update"), event_info, o2).lv)


\* C20: with one update followed by one draw in every frame, the level's
\* current_dimension is a member of dimensions_traveled in every reachable
\* state: the draw that records a target comes before the update that
\* switches to it.
C20_CurrentIsTraveled ==
    level.current_dimension \in level.dimensions_traveled

\* An update has just switched the level to another dimension.
C20_Witness ==
    /\ AfterUpdate
    /\ trace.switches > 0
    /\ level.current_dimension # PARALLEL_DIMENSION
    /\ level.current_dimension \in level.dimensions_traveled

====
